---- MODULE Spec2Model ----
(***************************************************************************)
(* A model of tagger/tagger.py (aws-tagger): the tag codec, the resource   *)
(* identifier dispatch, the retry-wrapped remote calls of the per-type     *)
(* taggers and the single, bulk and tabular dispatchers.                   *)
(*                                                                         *)
(* Python strings are TLA+ strings (TLC evaluates Len, SubSeq and \o on    *)
(* them).  A Python dict whose iteration order matters is a sequence of    *)
(* <<key, value>> pairs with distinct keys, in iteration order.            *)
(* Times are in milliseconds, as in the retrying library.                  *)
(***************************************************************************)
EXTENDS Integers, Sequences, FiniteSets, TLC

(***************************************************************************)
(* Bounds of the model.                                                    *)
(***************************************************************************)
\* the largest number of tags of an input tag set
MaxTags == 2
\* the longest a remote attempt takes, in seconds
MaxLatency == 1
\* the longest identifier list handed to the bulk dispatcher
MaxIds == 2

(***************************************************************************)
(* Python values.                                                          *)
(***************************************************************************)
None == "<None>"

\* str.startswith
StartsWith(s, prefix) ==
    /\ Len(s) >= Len(prefix)
    /\ SubSeq(s, 1, Len(prefix)) = prefix

\* the operator `sub in s` on strings
Contains(s, sub) ==
    \E i \in 1..(Len(s) - Len(sub) + 1) : SubSeq(s, i, i + Len(sub) - 1) = sub

\* str.find(sep) + 1 for a one-character sep: 0 when sep does not occur
Find(s, sep) ==
    IF \E i \in 1..Len(s) : SubSeq(s, i, i) = sep
    THEN CHOOSE i \in 1..Len(s) :
            /\ SubSeq(s, i, i) = sep
            /\ \A j \in 1..(i - 1) : SubSeq(s, j, j) # sep
    ELSE 0

\* str.split(sep): every separator splits
RECURSIVE Split(_, _)
Split(s, sep) ==
    LET i == Find(s, sep)
    IN  IF i = 0
        THEN <<s>>
        ELSE <<SubSeq(s, 1, i - 1)>> \o Split(SubSeq(s, i + 1, Len(s)), sep)

\* str.split(sep, 1): only the first separator splits
SplitOnce(s, sep) ==
    LET i == Find(s, sep)
    IN  IF i = 0
        THEN <<s>>
        ELSE <<SubSeq(s, 1, i - 1), SubSeq(s, i + 1, Len(s))>>

\* sep.join(parts)
RECURSIVE Join(_, _)
Join(parts, sep) ==
    IF parts = <<>> THEN ""
    ELSE IF Len(parts) = 1 THEN parts[1]
    ELSE parts[1] \o sep \o Join(Tail(parts), sep)

\* the number of occurrences of the one-character sep in s
Count(s, sep) == Cardinality({i \in 1..Len(s) : SubSeq(s, i, i) = sep})

(***************************************************************************)
(* Module-level helpers of tagger.py.                                      *)
(***************************************************************************)
_arn_to_name_first_segment(resource_arn) ==
    LET parts == Split(resource_arn, ":")
        name  == parts[1]
        sub   == SplitOnce(name, "/")
    IN  IF Len(sub) = 2 THEN sub[Len(sub)] ELSE name

_arn_to_name(resource_arn) ==
    LET parts == Split(resource_arn, ":")
        name  == parts[Len(parts)]
        sub   == SplitOnce(name, "/")
    IN  IF Len(sub) = 2 THEN sub[Len(sub)] ELSE name

\* a wire tag {'Key': key, 'Value': value}
AwsTag(key, value) == [Key |-> key, Value |-> value]

_dict_to_aws_tags_keep_name(tags) ==
    LET Keep(key) == ~StartsWith(key, "aws:")
        F[i \in 0..Len(tags)] ==
            IF i = 0 THEN <<>>
            ELSE IF Keep(tags[i][1])
                 THEN Append(F[i - 1], AwsTag(tags[i][1], tags[i][2]))
                 ELSE F[i - 1]
    IN  F[Len(tags)]

\* the list comprehension over tags.iteritems()
_dict_to_aws_tags(tags) ==
    LET Keep(key) == ~StartsWith(key, "aws:") /\ ~StartsWith(key, "Name")
        F[i \in 0..Len(tags)] ==
            IF i = 0 THEN <<>>
            ELSE IF Keep(tags[i][1])
                 THEN Append(F[i - 1], AwsTag(tags[i][1], tags[i][2]))
                 ELSE F[i - 1]
    IN  F[Len(tags)]

\* the dict as a function (a later pair of the same key wins, as in a dict
\* comprehension)
_aws_tags_to_dict(aws_tags) ==
    LET kept == {i \in 1..Len(aws_tags) : ~StartsWith(aws_tags[i].Key, "aws:")}
        keys == {aws_tags[i].Key : i \in kept}
        last(k) == CHOOSE i \in kept :
                      /\ aws_tags[i].Key = k
                      /\ \A j \in kept : aws_tags[j].Key = k => j <= i
    IN  [k \in keys |-> aws_tags[last(k)].Value]

(***************************************************************************)
(* Exceptions.  A botocore ClientError carries response["Error"]["Code"];  *)
(* every other exception (a transport fault, an IndexError, ...) is told   *)
(* apart by its type only.                                                 *)
(***************************************************************************)
NoException == [type |-> None, code |-> ""]
ClientError(code) == [type |-> "ClientError", code |-> code]
EndpointConnectionError == [type |-> "EndpointConnectionError", code |-> ""]
IndexError == [type |-> "IndexError", code |-> ""]
KeyError == [type |-> "KeyError", code |-> ""]

\* the error codes the remote APIs answer with in this model
ErrorCodes ==
    {"RequestLimitExceeded", "DBInstanceNotFound", "LoadBalancerNotFound",
     "CacheClusterNotFound", "AccessDenied"}

\* what one attempt of a remote call can fail with
Failures == {ClientError(c) : c \in ErrorCodes} \cup {EndpointConnectionError}

(***************************************************************************)
(* The retry policy: @retry(retry_on_exception=_is_retryable_exception,    *)
(* stop_max_delay=30000, wait_exponential_multiplier=1000) of the retrying *)
(* library, the same on every wrapped call.                                *)
(***************************************************************************)
stop_max_delay == 30000
wait_exponential_multiplier == 1000

_is_retryable_exception_any_client_error(exception) ==
    \/ exception.type # "ClientError"
    \/ exception.code \in {"RequestLimitExceeded", "AccessDenied"}

_is_retryable_exception(exception) ==
    \/ exception.type # "ClientError"
    \/ exception.code \in {"RequestLimitExceeded"}

stop_never(delay_since_first_attempt_ms) == FALSE

\* Retrying.stop_after_delay, the stop function stop_max_delay selects
stop(delay_since_first_attempt_ms) ==
    delay_since_first_attempt_ms >= stop_max_delay

exponential_sleep_linear(previous_attempt_number) ==
    wait_exponential_multiplier * 2 * previous_attempt_number

\* Retrying.exponential_sleep, the wait function wait_exponential_multiplier
\* selects: multiplier * 2 ** previous_attempt_number

exponential_sleep(previous_attempt_number) ==
    wait_exponential_multiplier * (2 ^ previous_attempt_number)

\* how long one attempt of a remote call can take, in ms: no time, or the
\* longest
Latencies == {0, 1000 * MaxLatency}

(***************************************************************************)
(* A retry-wrapped call.  While it runs, started is when the attempt about *)
(* to be made begins and delay is delay_since_first_attempt_ms as the      *)
(* wrapper last computed it, both in ms since the first attempt began, and *)
(* exc is what the attempt before failed with.                             *)
(* Once it has ended the record keeps what its caller gets: the outcome,   *)
(* the number of attempts made and, when the stop condition ended it, the  *)
(* times of the last attempt.                                              *)
(***************************************************************************)
NoCall ==
    [api |-> None, args |-> [Tags |-> <<>>], attempt_number |-> 0, started |-> 0,
     delay |-> 0, status |-> "none", exc |-> NoException]

NewCall(api, args) ==
    [api |-> api, args |-> args, attempt_number |-> 1, started |-> 0,
     delay |-> 0, status |-> "running", exc |-> NoException]

\* One pass of the loop of Retrying.call: the attempt took `latency` and
\* ended with `failure` (NoException: it returned).
RetryStep(c, failure, latency) ==
    LET delay_since_first_attempt_ms == c.started + latency
    IN  IF failure = NoException
        THEN [c EXCEPT !.status = "returned", !.started = 0, !.delay = 0]
        ELSE IF ~_is_retryable_exception(failure)
        THEN [c EXCEPT !.status = "raised", !.exc = failure,
                       !.started = 0, !.delay = 0]
        ELSE IF stop(delay_since_first_attempt_ms)
        THEN [c EXCEPT !.status = "raised", !.exc = failure,
                       !.delay = delay_since_first_attempt_ms]
        ELSE [c EXCEPT !.exc = failure,
                       !.delay = delay_since_first_attempt_ms,
                       !.started = delay_since_first_attempt_ms
                                   + exponential_sleep(c.attempt_number),
                       !.attempt_number = c.attempt_number + 1]

(***************************************************************************)
(* Clients and the per-type taggers.                                       *)
(***************************************************************************)
\* Python truthiness of an optional string
Truthy(v) == v # None /\ v # ""

\* dict.get(field, default) on a response structure
Get(rec, field, default) == IF field \in DOMAIN rec THEN rec[field] ELSE default

\* boto3.client(name, **kwargs): region_name is None when the SDK default is
\* left to apply; assume_role tells whether building this client asked the
\* token service for temporary credentials (_fetch_temporary_credentials)
_client(name, a_role, a_region, environ_region) ==
    [service     |-> name,
     region_name |-> IF Truthy(a_region) THEN a_region
                     ELSE IF Truthy(environ_region) THEN environ_region
                     ELSE None,
     assume_role |-> Truthy(a_role)]

\* what sts.assume_role can fail with; the call is not retry-wrapped
StsFailures == {ClientError("AccessDenied")}

\* the request of _fetch_temporary_credentials: the sts client is bound to
\* AWS_REGION, and to us-east-1 without it
_fetch_temporary_credentials(a_role, environ_region) ==
    [api  |-> "sts.assume_role",
     args |-> [RoleArn |-> a_role,
               region_name |-> IF environ_region # None THEN environ_region
                               ELSE "us-east-1"]]

\* the remote requests one call of _client makes: one role assumption when a
\* role is given, none otherwise
ClientRequests(a_role, environ_region) ==
    IF Truthy(a_role) THEN <<_fetch_temporary_credentials(a_role, environ_region)>>
    ELSE <<>>

RECURSIVE Flatten(_)
Flatten(seqs) == IF seqs = <<>> THEN <<>> ELSE Head(seqs) \o Flatten(Tail(seqs))

\* the volume ids of one instance of a describe_instances response
VolumeIds(instance) ==
    LET volumes == Get(instance, "BlockDeviceMappings", <<>>)
        volume_id(volume) == Get(Get(volume, "Ebs", <<>>), "VolumeId", None)
        F[i \in 0..Len(volumes)] ==
            IF i = 0 THEN <<>>
            ELSE IF Truthy(volume_id(volumes[i]))
                 THEN Append(F[i - 1], volume_id(volumes[i]))
                 ELSE F[i - 1]
    IN  F[Len(volumes)]

\* the loop of EC2Tagger.__init__ over the reservations: a later instance of
\* the same id overwrites an earlier one
VolumeCache(reservations) ==
    LET instances == Flatten([r \in 1..Len(reservations["Reservations"]) |->
                                 reservations["Reservations"][r]["Instances"]])
        ids == {instances[i]["InstanceId"] : i \in 1..Len(instances)}
        last(id) == CHOOSE i \in 1..Len(instances) :
                       /\ instances[i]["InstanceId"] = id
                       /\ \A j \in 1..Len(instances) :
                             instances[j]["InstanceId"] = id => j <= i
    IN  [id \in ids |-> VolumeIds(instances[last(id)])]

\* what a tag() call did before it returned or reached its remote call
NoRequest == [api |-> None, args |-> [Tags |-> <<>>]]
Request(api, args) == [api |-> api, args |-> args]
Effect(printed_lines, request) ==
    [printed |-> printed_lines, request |-> request, product |-> None]

\* the line `print "tagging %s with %s"` of every per-type tagger
TaggingLine(t, what, tags) ==
    IF t.verbose THEN <<[text |-> "tagging", resource |-> what, tags |-> tags]>>
    ELSE <<>>
NotFoundLine(resource_arn) == [text |-> "Resource not found", resource |-> resource_arn]
NotSupportedLine(resource_id) ==
    [text |-> "Tagging is not support for this resource", resource |-> resource_id]

EC2Tagger_tag_refreshing(t, instance_id, tags) ==
    Effect(TaggingLine(t, instance_id, tags),
           Request("ec2.describe_instances", [MaxResults |-> 1000]))

EC2Tagger_tag_instance_only(t, instance_id, tags) ==
    LET aws_tags == _dict_to_aws_tags(tags)
        resource_ids == <<instance_id>>
    IN  Effect(TaggingLine(t, Join(resource_ids, ", "), tags),
               IF ~t.dryrun
               THEN Request("ec2.create_tags",
                            [Resources |-> resource_ids, Tags |-> aws_tags])
               ELSE NoRequest)

EC2Tagger_tag(t, instance_id, tags) ==
    LET aws_tags == _dict_to_aws_tags(tags)
        resource_ids == <<instance_id>> \o Get(t.volume_cache, instance_id, <<>>)
    IN  Effect(TaggingLine(t, Join(resource_ids, ", "), tags),
               IF ~t.dryrun
               THEN Request("ec2.create_tags",
                            [Resources |-> resource_ids, Tags |-> aws_tags])
               ELSE NoRequest)

EFSTagger_tag_ignoring_dryrun(t, resource_arn, tags) ==
    LET file_system_id == _arn_to_name(resource_arn)
        aws_tags == _dict_to_aws_tags(tags)
    IN  Effect(TaggingLine(t, file_system_id, tags),
               Request("efs.create_tags",
                       [FileSystemId |-> file_system_id, Tags |-> aws_tags]))

EFSTagger_tag(t, resource_arn, tags) ==
    LET file_system_id == _arn_to_name(resource_arn)
        aws_tags == _dict_to_aws_tags(tags)
    IN  Effect(TaggingLine(t, file_system_id, tags),
               IF ~t.dryrun
               THEN Request("efs.create_tags",
                            [FileSystemId |-> file_system_id, Tags |-> aws_tags])
               ELSE NoRequest)

RDSTagger_tag(t, resource_arn, tags) ==
    LET aws_tags == _dict_to_aws_tags(tags)
    IN  Effect(TaggingLine(t, resource_arn, tags),
               IF ~t.dryrun
               THEN Request("rds.add_tags_to_resource",
                            [ResourceName |-> resource_arn, Tags |-> aws_tags])
               ELSE NoRequest)

LBTagger_tag_always_classic(t, resource_arn, tags) ==
    LET elb_name == _arn_to_name(resource_arn)
        aws_tags == _dict_to_aws_tags(tags)
    IN  Effect(TaggingLine(t, resource_arn, tags),
               IF ~t.dryrun
               THEN Request("elb.add_tags",
                            [LoadBalancerNames |-> <<elb_name>>, Tags |-> aws_tags])
               ELSE NoRequest)

LBTagger_tag(t, resource_arn, tags) ==
    LET elb_name == _arn_to_name(resource_arn)
        aws_tags == _dict_to_aws_tags(tags)
    IN  Effect(TaggingLine(t, resource_arn, tags),
               IF ~t.dryrun
               THEN IF Contains(resource_arn, ":loadbalancer/app/")
                    THEN Request("elbv2.add_tags",
                                 [ResourceArns |-> <<resource_arn>>, Tags |-> aws_tags])
                    ELSE Request("elb.add_tags",
                                 [LoadBalancerNames |-> <<elb_name>>, Tags |-> aws_tags])
               ELSE NoRequest)

ElasticacheTagger_tag(t, resource_arn, tags) ==
    LET aws_tags == _dict_to_aws_tags(tags)
    IN  Effect(TaggingLine(t, resource_arn, tags),
               IF ~t.dryrun
               THEN Request("elasticache.add_tags_to_resource",
                            [ResourceName |-> resource_arn, Tags |-> aws_tags])
               ELSE NoRequest)

\* the except clauses of the tag() methods: TRUE when the exception the
\* wrapped call raised is caught and reported as "Resource not found"
RDSTagger_tag_except(exception) ==
    exception.type = "ClientError" /\ exception.code \in {"DBInstanceNotFound"}
LBTagger_tag_except(exception) ==
    exception.type = "ClientError" /\ exception.code \in {"LoadBalancerNotFound"}
ElasticacheTagger_tag_except(exception) ==
    exception.type = "ClientError" /\ exception.code \in {"CacheClusterNotFound"}

Absorbs_any_not_found(api, exception) ==
    /\ api \in {"rds.add_tags_to_resource", "elb.add_tags", "elbv2.add_tags",
                "elasticache.add_tags_to_resource"}
    /\ \/ RDSTagger_tag_except(exception)
       \/ LBTagger_tag_except(exception)
       \/ ElasticacheTagger_tag_except(exception)

\* whether the tag() method that made the call `api` catches the exception;
\* EC2Tagger.tag and EFSTagger.tag have no try statement
Absorbs(api, exception) ==
    CASE api = "rds.add_tags_to_resource" -> RDSTagger_tag_except(exception)
      [] api \in {"elb.add_tags", "elbv2.add_tags"} -> LBTagger_tag_except(exception)
      [] api = "elasticache.add_tags_to_resource" ->
            ElasticacheTagger_tag_except(exception)
      [] OTHER -> FALSE

(***************************************************************************)
(* SingleResourceTagger.                                                   *)
(***************************************************************************)
\* SingleResourceTagger.__init__, given what describe_instances answered to
\* EC2Tagger.__init__
SingleResourceTagger(a_dryrun, a_verbose, a_role, a_region, environ_region, reservations) ==
    LET client(name) == _client(name, a_role, a_region, environ_region)
    IN  [region |-> a_region,
         taggers |->
            [ec2 |-> [class |-> "EC2Tagger", dryrun |-> a_dryrun, verbose |-> a_verbose,
                      clients |-> <<client("ec2")>>,
                      volume_cache |-> VolumeCache(reservations)],
             elasticfilesystem |->
                     [class |-> "EFSTagger", dryrun |-> a_dryrun, verbose |-> a_verbose,
                      clients |-> <<client("efs")>>],
             rds |-> [class |-> "RDSTagger", dryrun |-> a_dryrun, verbose |-> a_verbose,
                      clients |-> <<client("rds")>>],
             elasticloadbalancing |->
                     [class |-> "LBTagger", dryrun |-> a_dryrun, verbose |-> a_verbose,
                      clients |-> <<client("elb"), client("elbv2")>>],
             elasticache |->
                     [class |-> "ElasticacheTagger", dryrun |-> a_dryrun,
                      verbose |-> a_verbose,
                      clients |-> <<client("elasticache")>>]]]

NoTagger == [region |-> None, taggers |-> [p \in {} |-> None]]

Select_by_segment_1(self, resource_id) ==
    IF StartsWith(resource_id, "i-") THEN "ec2"
    ELSE IF StartsWith(resource_id, "arn:")
    THEN LET parts == Split(resource_id, ":")
         IN  IF Len(parts) > 4 /\ parts[2] \in DOMAIN self.taggers
             THEN parts[2] ELSE None
    ELSE None

Select_any_prefix(self, resource_id) ==
    IF StartsWith(resource_id, "i-") THEN "ec2"
    ELSE LET parts == Split(resource_id, ":")
         IN  IF Len(parts) > 4 /\ parts[3] \in DOMAIN self.taggers
             THEN parts[3] ELSE None

\* lines 68-75 of SingleResourceTagger.tag: the key of self.taggers the
\* identifier selects, None when it selects no tagger (parts[2] of the code
\* is parts[3] here: sequences start at 1)
Select(self, resource_id) ==
    IF StartsWith(resource_id, "i-") THEN "ec2"
    ELSE IF StartsWith(resource_id, "arn:")
    THEN LET parts == Split(resource_id, ":")
         IN  IF Len(parts) > 4 /\ parts[3] \in DOMAIN self.taggers
             THEN parts[3] ELSE None
    ELSE None

\* tagger.tag(resource_id, tags) of the tagger registered under `product`
PerTypeTag(self, product, resource_id, tags) ==
    LET t == self.taggers[product]
    IN  CASE t.class = "EC2Tagger" -> EC2Tagger_tag(t, resource_id, tags)
          [] t.class = "EFSTagger" -> EFSTagger_tag(t, resource_id, tags)
          [] t.class = "RDSTagger" -> RDSTagger_tag(t, resource_id, tags)
          [] t.class = "LBTagger" -> LBTagger_tag(t, resource_id, tags)
          [] t.class = "ElasticacheTagger" ->
                ElasticacheTagger_tag(t, resource_id, tags)

SingleResourceTagger_tag(self, resource_id, tags) ==
    IF resource_id = "" THEN Effect(<<>>, NoRequest)
    ELSE LET product == Select(self, resource_id)
         IN  IF product # None
             THEN [PerTypeTag(self, product, resource_id, tags)
                      EXCEPT !.product = product]
             ELSE Effect(<<NotSupportedLine(resource_id)>>, NoRequest)

(***************************************************************************)
(* Inputs.                                                                 *)
(***************************************************************************)
\* the identifiers handed to the single-resource dispatcher
ResourceIds ==
    {"",
     "i-1",
     "vol-1",
     "arn:aws:rds:us-east-1",
     "arn:rds:aws:us-east-1:1:db",
     "arn:aws:s3:::bucket",
     "xrn:aws:rds:us-east-1:1:db:mydb",
     "arn:aws:ec2:us-east-1:1:instance/i-1",
     "arn:aws:elasticfilesystem:us-east-1:1:file-system/fs-1",
     "arn:aws:elasticfilesystem:us-east-1:1:fs-2",
     "arn:aws:rds:us-east-1:1:db:mydb",
     "arn:aws:elasticloadbalancing:us-east-1:1:loadbalancer/app/web/abc",
     "arn:aws:elasticloadbalancing:us-east-1:1:loadbalancer/classic",
     "arn:aws:elasticloadbalancing:us-east-1:1:loadbalancer/net/nlb/abc",
     "arn:aws:elasticache:us-east-1:1:cluster:redis"}

\* the identifiers of the lists handed to the bulk dispatcher
BulkIds == {"", "i-1", "arn:aws:rds:us-east-1:1:db:mydb"}

TagKeys == {"aws:cf", "Name", "Names", "env"}
TagValues == {"v"}

\* dicts of at most n items, in every iteration order
Dicts(n) ==
    UNION {{d \in [1..k -> TagKeys \X TagValues] :
               \A i, j \in 1..k : d[i][1] = d[j][1] => i = j} : k \in 0..n}

TagSets == Dicts(MaxTags)
BulkTagSets == Dicts(1)

IdLists == UNION {[1..k -> BulkIds] : k \in 0..MaxIds}

\* what describe_instances answers
Worlds ==
    {[Reservations |-> <<>>],
     [Reservations |->
        <<[Instances |->
            <<[InstanceId |-> "i-1",
               BlockDeviceMappings |->
                  <<[DeviceName |-> "/dev/sda1", Ebs |-> [VolumeId |-> "vol-1"]],
                    [DeviceName |-> "/dev/sdb", VirtualName |-> "ephemeral0"],
                    [DeviceName |-> "/dev/sdc", Ebs |-> [VolumeId |-> "vol-2"]]>>]>>],
          [Instances |-> <<[InstanceId |-> "i-2"]>>]>>]}

\* the role and region arguments and the AWS_REGION environment variable; the
\* single and bulk dispatchers, which use them at construction only, are
\* constructed with the first
DefaultEnvironment == [role |-> None, region |-> None, environ |-> None]
Environments ==
    {DefaultEnvironment,
     [role |-> None, region |-> None, environ |-> "us-west-2"],
     [role |-> "admin", region |-> "us-east-1", environ |-> "us-west-2"]}

\* the rows of the tabular input
Headers ==
    {<<"Id", "Region", "env">>, <<"Id", "env", "Name">>, <<"Region", "env">>,
     <<"env", "Id">>}
RowIds == {"", "i-1", "arn:aws:rds:us-east-1:1:db:mydb"}
Cells == {"", "eu-west-1"}
DataRows ==
    {<<>>} \cup {<<i>> : i \in RowIds} \cup {<<i, c>> : i \in RowIds, c \in Cells}
    \cup {<<i, c, d>> : i \in RowIds, c \in Cells, d \in Cells}

\* the orders in which a dict of the given keys can iterate
Orders(keys) ==
    {o \in [1..Cardinality(keys) -> keys] :
        \A i, j \in 1..Cardinality(keys) : o[i] = o[j] => i = j}

(***************************************************************************)
(* State.                                                                  *)
(***************************************************************************)
VARIABLES
    kind,             \* which dispatcher the run uses: "single", "multi", "csv"
    dryrun, verbose,  \* the flags the dispatcher was constructed with
    environment,      \* its role and region arguments, and AWS_REGION
    world,            \* what describe_instances answers
    tagger,           \* the SingleResourceTagger of a single or bulk dispatcher
    regional_tagger,  \* CSVResourceTagger.regional_tagger
    pc,               \* "idle" (before the dispatcher's tag() is called),
                      \* "loop" (between two iterations of its loop),
                      \* "call" (in a retry-wrapped call), "done"
    queue,            \* MultipleResourceTagger.tag: the identifiers left
    op_tags,          \* MultipleResourceTagger.tag: its tags argument
    header_row,       \* CSVResourceTagger.tag: header_row
    tag_index,        \* CSVResourceTagger.tag: tag_index
    cur_row,          \* CSVResourceTagger.tag: row, the row the reader last gave
    constructions,    \* how many SingleResourceTagger objects the tabular
                      \* dispatcher has constructed
    cur,              \* the identifier, tags and region being handled
    call,             \* the remote call in progress, or the last one
    result,           \* how the last dispatcher tag() ended
    sent,             \* the remote requests issued for the current input
    printed           \* the lines printed for the current input

vars ==
    <<kind, dryrun, verbose, environment, world, tagger, regional_tagger, pc,
      queue, op_tags, header_row, tag_index, cur_row, constructions, cur, call,
      result, sent, printed>>

config == <<kind, dryrun, verbose, environment, world, tagger>>

\* dispatched: SingleResourceTagger.tag has been called on the item;
\* product: the key of self.taggers it selected, None when it selected none
NoItem ==
    [resource_id |-> "", tags |-> <<>>, region |-> None, dispatched |-> FALSE,
     product |-> None]
Item(resource_id, tags, a_region) ==
    [resource_id |-> resource_id, tags |-> tags, region |-> a_region,
     dispatched |-> FALSE, product |-> None]

NoResult == [status |-> "none", exc |-> NoException]
Running == [status |-> "running", exc |-> NoException]
Returned == [status |-> "returned", exc |-> NoException]
Raised(exception) == [status |-> "raised", exc |-> exception]

NoIndex == [name \in {} |-> 0]

Init ==
    /\ kind \in {"single", "multi", "csv"}
    /\ dryrun \in BOOLEAN
    /\ verbose \in BOOLEAN
    /\ environment \in IF kind = "csv" THEN Environments ELSE {DefaultEnvironment}
    /\ world \in Worlds
    /\ tagger = IF kind = "csv" THEN NoTagger
                ELSE SingleResourceTagger(dryrun, verbose, environment.role,
                                          environment.region, environment.environ,
                                          world)
    /\ regional_tagger = [r \in {} |-> NoTagger]
    /\ pc = "idle"
    /\ queue = <<>>
    /\ op_tags = <<>>
    /\ header_row = TRUE
    /\ tag_index = NoIndex
    /\ cur_row = <<>>
    /\ constructions = 0
    /\ cur = NoItem
    /\ call = NoCall
    /\ result = NoResult
    /\ sent = <<>>
    /\ printed = <<>>

(***************************************************************************)
(* SingleResourceTagger.tag(item.resource_id, item.tags) on the dispatcher *)
(* `self`, up to its return or to the first attempt of its remote call.    *)
(* `after` is where control goes when it returns: "done" when the caller   *)
(* is the program, "loop" when it is the loop of a bulk dispatcher.        *)
(***************************************************************************)
Enter(self, item, base_call, base_sent, base_printed, after) ==
    LET e == SingleResourceTagger_tag(self, item.resource_id, item.tags)
    IN  /\ cur' = [item EXCEPT !.dispatched = TRUE, !.product = e.product]
        /\ printed' = base_printed \o e.printed
        /\ IF e.request.api # None
           THEN /\ call' = NewCall(e.request.api, e.request.args)
                /\ sent' = Append(base_sent, e.request)
                /\ pc' = "call"
                /\ result' = Running
           ELSE /\ call' = base_call
                /\ sent' = base_sent
                /\ pc' = after
                /\ result' = IF after = "done" THEN Returned ELSE Running

After_first_item_only == "done"

\* where control goes when SingleResourceTagger.tag returns: to the program
\* or back to the loop of the bulk dispatcher that called it
After == IF kind = "single" THEN "done" ELSE "loop"

(***************************************************************************)
(* The single-resource dispatcher.                                         *)
(***************************************************************************)
SingleTag(resource_id, tags) ==
    /\ kind = "single"
    /\ pc = "idle"
    /\ Enter(tagger, Item(resource_id, tags, None), NoCall, <<>>, <<>>, "done")
    /\ UNCHANGED <<config, regional_tagger, queue, op_tags, header_row, tag_index,
                   cur_row, constructions>>

(***************************************************************************)
(* MultipleResourceTagger.tag: the call, one iteration of its loop, and    *)
(* its return at the end of the list.                                      *)
(***************************************************************************)
MultiTag(resource_ids, tags) ==
    /\ kind = "multi"
    /\ pc = "idle"
    /\ pc' = "loop"
    /\ queue' = resource_ids
    /\ op_tags' = tags
    /\ cur' = NoItem
    /\ call' = NoCall
    /\ result' = Running
    /\ sent' = <<>>
    /\ printed' = <<>>
    /\ UNCHANGED <<config, regional_tagger, header_row, tag_index, cur_row,
                   constructions>>

MultiNext ==
    /\ kind = "multi"
    /\ pc = "loop"
    /\ queue # <<>>
    /\ queue' = Tail(queue)
    /\ Enter(tagger, Item(Head(queue), op_tags, None), NoCall, sent, printed, "loop")
    /\ UNCHANGED <<config, regional_tagger, op_tags, header_row, tag_index,
                   cur_row, constructions>>

MultiReturn ==
    /\ kind = "multi"
    /\ pc = "loop"
    /\ queue = <<>>
    /\ pc' = "done"
    /\ result' = Returned
    /\ UNCHANGED <<config, regional_tagger, queue, op_tags, header_row, tag_index,
                   cur_row, constructions, cur, call, sent, printed>>

(***************************************************************************)
(* CSVResourceTagger.                                                      *)
(***************************************************************************)
_parse_header_one_based(row) ==
    LET names == {row[i] : i \in 1..Len(row)}
        last(name) == CHOOSE i \in 1..Len(row) :
                         /\ row[i] = name
                         /\ \A j \in 1..Len(row) : row[j] = name => j <= i
    IN  [name \in names |-> last(name)]

\* indices count from 0, as in the code; a later column of the same name
\* replaces an earlier one
_parse_header(row) ==
    LET names == {row[i] : i \in 1..Len(row)}
        last(name) == CHOOSE i \in 1..Len(row) :
                         /\ row[i] = name
                         /\ \A j \in 1..Len(row) : row[j] = name => j <= i
    IN  [name \in names |-> last(name) - 1]

\* what _tag_resource raises on the row: KeyError without an Id column,
\* IndexError when the row is shorter than a column of the header
RowError(index, row) ==
    IF "Id" \notin DOMAIN index THEN KeyError
    ELSE IF \E name \in DOMAIN index : index[name] >= Len(row) THEN IndexError
    ELSE NoException

\* the keys of the dict tags that _tag_resource builds
RowTagKeys_with_region(index, row) ==
    {key \in DOMAIN index : key # "Id" /\ row[index[key] + 1] # ""}

RowTagKeys(index, row) ==
    {key \in DOMAIN index :
        key # "Id" /\ key # "Region" /\ row[index[key] + 1] # ""}

\* that dict, iterating in the order `order`
RowTags(index, row, order) ==
    [i \in 1..Len(order) |-> <<order[i], row[index[order[i]] + 1]>>]

_lookup_region_flag_first(index, row) ==
    LET region == IF environment.region # None THEN environment.region
                  ELSE IF "Region" \in DOMAIN index THEN row[index["Region"] + 1]
                  ELSE None
    IN  IF region = "" THEN None ELSE region

\* the region _lookup_tagger looks up in self.regional_tagger
_lookup_region(index, row) ==
    LET region == IF "Region" \in DOMAIN index THEN row[index["Region"] + 1]
                  ELSE environment.region
    IN  IF region = "" THEN None ELSE region

DescribeRequest == Request("ec2.describe_instances", [MaxResults |-> 1000])

\* the clients SingleResourceTagger.__init__ builds once EC2Tagger.__init__
\* has returned, in order
LaterClients == <<"efs", "rds", "elb", "elbv2", "elasticache">>

\* sts.assume_role raising `failure`, as a call that ended
StsCall(request, failure) ==
    [api |-> request.api, args |-> request.args, attempt_number |-> 1,
     started |-> 0, delay |-> 0, status |-> "raised", exc |-> failure]

Cached_never(cache, region) == FALSE

\* lines 140-141 of _lookup_tagger: self.regional_tagger.get(region) is not
\* None
Cached(cache, region) == region \in DOMAIN cache

\* self.regional_tagger[region] = tagger
Store(cache, region, self) ==
    [r \in DOMAIN cache \cup {region} |-> IF r = region THEN self ELSE cache[r]]

CSVTag ==
    /\ kind = "csv"
    /\ pc = "idle"
    /\ pc' = "loop"
    /\ header_row' = TRUE
    /\ tag_index' = NoIndex
    /\ cur_row' = <<>>
    /\ cur' = NoItem
    /\ call' = NoCall
    /\ result' = Running
    /\ sent' = <<>>
    /\ printed' = <<>>
    /\ UNCHANGED <<config, regional_tagger, queue, op_tags, constructions>>

CSVHeader(row) ==
    /\ kind = "csv"
    /\ pc = "loop"
    /\ header_row
    /\ header_row' = FALSE
    /\ tag_index' = _parse_header(row)
    /\ cur_row' = row
    /\ UNCHANGED <<config, regional_tagger, queue, op_tags, constructions, pc, cur,
                   call, result, sent, printed>>

\* one data row: _tag_resource up to the return of tagger.tag, to the first
\* attempt of its remote call, or into the construction of the dispatcher
\* _lookup_tagger has to build: to the failure of the role assumption of its
\* first client, or to the first attempt of its describe_instances
CSVRow(row) ==
    /\ kind = "csv"
    /\ pc = "loop"
    /\ ~header_row
    /\ cur_row' = row
    /\ IF RowError(tag_index, row) # NoException
       THEN /\ pc' = "done"
            /\ result' = Raised(RowError(tag_index, row))
            /\ cur' = NoItem
            /\ call' = NoCall
            /\ sent' = <<>>
            /\ printed' = <<>>
       ELSE \E order \in Orders(RowTagKeys(tag_index, row)) :
            LET resource_id == row[tag_index["Id"] + 1]
                a_region == _lookup_region(tag_index, row)
                item == Item(resource_id, RowTags(tag_index, row, order), a_region)
                assumed == ClientRequests(environment.role, environment.environ)
            IN  IF Cached(regional_tagger, a_region)
                THEN Enter(regional_tagger[a_region], item, NoCall, <<>>, <<>>, "loop")
                ELSE \E failure \in {NoException}
                                    \cup (IF assumed # <<>> THEN StsFailures ELSE {}) :
                     /\ cur' = item
                     /\ printed' = <<>>
                     /\ IF failure = NoException
                        THEN /\ call' = NewCall(DescribeRequest.api, DescribeRequest.args)
                             /\ sent' = Append(assumed, DescribeRequest)
                             /\ pc' = "call"
                             /\ result' = Running
                        ELSE /\ call' = StsCall(assumed[1], failure)
                             /\ sent' = assumed
                             /\ pc' = "done"
                             /\ result' = Raised(failure)
    /\ UNCHANGED <<config, regional_tagger, queue, op_tags, header_row, tag_index,
                   constructions>>

CSVReturn ==
    /\ kind = "csv"
    /\ pc = "loop"
    /\ pc' = "done"
    /\ result' = Returned
    /\ UNCHANGED <<config, regional_tagger, queue, op_tags, header_row, tag_index,
                   cur_row, constructions, cur, call, sent, printed>>

\* describe_instances has returned to EC2Tagger.__init__: the rest of
\* SingleResourceTagger.__init__, where the role assumption of any later
\* client can fail, and then the rest of _lookup_tagger and of _tag_resource
Constructed(c) ==
    \E n \in 0..Len(LaterClients) :
        LET assumed == Flatten([i \in 1..Len(LaterClients) |->
                          ClientRequests(environment.role, environment.environ)])
            self == SingleResourceTagger(dryrun, verbose, environment.role,
                                         cur.region, environment.environ, world)
        IN  IF n = Len(LaterClients)
            THEN /\ regional_tagger' = Store(regional_tagger, cur.region, self)
                 /\ constructions' = constructions + 1
                 /\ Enter(self, cur, c, sent \o assumed, printed, "loop")
            ELSE /\ n < Len(assumed)
                 /\ \E failure \in StsFailures :
                       /\ call' = StsCall(assumed[n + 1], failure)
                       /\ result' = Raised(failure)
                 /\ sent' = sent \o SubSeq(assumed, 1, n + 1)
                 /\ pc' = "done"
                 /\ UNCHANGED <<regional_tagger, constructions, cur, printed>>

(***************************************************************************)
(* One attempt of the retry-wrapped call in progress: it takes `latency`   *)
(* and ends with `failure` (NoException: it returns).  The wrapper either  *)
(* sleeps and goes on to the next attempt, or ends the call; the program   *)
(* then runs on to its next remote call or to the end of the operation.    *)
(***************************************************************************)
Attempt(failure, latency) ==
    /\ pc = "call"
    /\ LET c == RetryStep(call, failure, latency)
       IN  IF c.status = "running"
           THEN /\ call' = c
                /\ UNCHANGED <<regional_tagger, constructions, pc, cur, result, sent,
                               printed>>
           ELSE IF c.api = DescribeRequest.api
           THEN IF c.status = "returned"
                THEN Constructed(c)
                ELSE /\ call' = c
                     /\ pc' = "done"
                     /\ result' = Raised(c.exc)
                     /\ UNCHANGED <<regional_tagger, constructions, cur, sent, printed>>
           ELSE IF c.status = "returned" \/ Absorbs(c.api, c.exc)
           THEN /\ call' = c
                /\ printed' = IF c.status = "raised"
                              THEN Append(printed, NotFoundLine(cur.resource_id))
                              ELSE printed
                /\ pc' = After
                /\ result' = IF After = "done" THEN Returned ELSE Running
                /\ UNCHANGED <<regional_tagger, constructions, cur, sent>>
           ELSE /\ call' = c
                /\ pc' = "done"
                /\ result' = Raised(c.exc)
                /\ UNCHANGED <<regional_tagger, constructions, cur, sent, printed>>
    /\ UNCHANGED <<config, queue, op_tags, header_row, tag_index, cur_row>>

Next ==
    \/ \E resource_id \in ResourceIds, tags \in TagSets : SingleTag(resource_id, tags)
    \/ \E resource_ids \in IdLists, tags \in BulkTagSets : MultiTag(resource_ids, tags)
    \/ MultiNext
    \/ MultiReturn
    \/ CSVTag
    \/ \E row \in Headers : CSVHeader(row)
    \/ \E row \in DataRows : CSVRow(row)
    \/ CSVReturn
    \/ \E failure \in Failures \cup {NoException}, latency \in Latencies :
          Attempt(failure, latency)

Spec == Init /\ [][Next]_vars

(***************************************************************************)
(* The claims.  What the specification says is restated here on its own    *)
(* terms; the definitions above are the code.                              *)
(***************************************************************************)
TaggingApis ==
    {"ec2.create_tags", "efs.create_tags", "rds.add_tags_to_resource",
     "elb.add_tags", "elbv2.add_tags", "elasticache.add_tags_to_resource"}

\* a provider-API error other than the rate-limit error
NonRateLimitProviderError(exception) ==
    exception.type = "ClientError" /\ exception.code # "RequestLimitExceeded"

\* a rate-limit error or a failure that is no provider-API error
TransientFailure(exception) ==
    \/ exception.type \notin {None, "ClientError"}
    \/ exception = ClientError("RequestLimitExceeded")

\* C1: in every retry-wrapped call, an attempt that fails with a provider
\* error other than RequestLimitExceeded is the last attempt of the call: the
\* number of attempts stays as it is (one, when it is the first failure), the
\* call ends raising that error and no further attempt follows; so a call
\* that goes on retrying has only ever failed transiently.
C1_NonRateLimitErrorNotRetried ==
    [][/\ (pc = "call" /\ call'.api = call.api
                       /\ NonRateLimitProviderError(call'.exc)) =>
             /\ call'.status = "raised"
             /\ call'.attempt_number = call.attempt_number
             /\ pc' # "call"
       /\ (pc' = "call" /\ call'.attempt_number > 1) => TransientFailure(call'.exc)
      ]_vars

C1_Witness ==
    /\ pc = "done"
    /\ call.api = "efs.create_tags"
    /\ call.status = "raised"
    /\ call.exc = ClientError("AccessDenied")
    /\ call.attempt_number = 1
    /\ result = Raised(ClientError("AccessDenied"))

\* the sum of the backoffs after the first n attempts, claimed 2^k seconds
\* after attempt k
RECURSIVE ClaimedBackoffSum(_)
ClaimedBackoffSum(n) == IF n = 0 THEN 0 ELSE (1000 * (2 ^ n)) + ClaimedBackoffSum(n - 1)

\* the number of attempts after which the backoffs alone reach the bound
ClaimedMaxAttempts ==
    1 + (CHOOSE n \in 0..16 :
            /\ ClaimedBackoffSum(n) >= 30000
            /\ \A m \in 0..(n - 1) : ClaimedBackoffSum(m) < 30000)

\* C2: every retry-wrapped call ends, after a bounded number of attempts, in
\* one of two ways.  A call whose transient failures are followed by an
\* attempt that returns reports success (nothing is raised).  A call whose
\* transient failures last until 30 s or more have elapsed makes no further
\* attempt and raises the exception of its final attempt itself, which the
\* operation propagates; a call still retrying has not reached 30 s.
C2_RetryOutcomes ==
    /\ call.status \in {"none", "running", "returned", "raised"}
    /\ call.attempt_number <= ClaimedMaxAttempts
    /\ pc = "call" <=> call.status = "running"
    /\ call.status = "running" => call.delay < 30000
    /\ call.status = "returned" =>
          /\ call.exc \in {NoException} \cup {e \in Failures : TransientFailure(e)}
          /\ result.status # "raised"
    /\ (call.status = "raised" /\ TransientFailure(call.exc)) =>
          /\ call.delay >= 30000
          /\ call.exc \in Failures
          /\ pc = "done"
          /\ result = Raised(call.exc)

C2_Witness ==
    /\ call.api = "rds.add_tags_to_resource"
    /\ call.status = "raised"
    /\ call.exc = ClientError("RequestLimitExceeded")
    /\ call.attempt_number > 1
    /\ call.delay >= 30000
    /\ result = Raised(ClientError("RequestLimitExceeded"))

\* C3 as claimed: every attempt of a call, the last one included, begins at
\* most 30 s after the first attempt began.
C3_Claimed_LastAttemptWithin30s ==
    call.status = "running" => call.started <= 30000

\* C3 as amended: the backoff after the n-th failed attempt is 2^n seconds
\* (2, 4, 8, 16, ...); the 30-second bound is tested only when an attempt has
\* failed, against the time elapsed since the first attempt began, and a
\* further attempt is made only if that time is below 30 s.  So the last
\* attempt begins less than 30 s plus its backoff after the first, and after
\* a failure at 30 s or later no attempt is made.
C3_BackoffAndCap ==
    /\ (call.status = "running" /\ call.attempt_number > 1) =>
          /\ call.delay < 30000
          /\ call.started = call.delay + 1000 * (2 ^ (call.attempt_number - 1))
    /\ (call.status = "running" /\ call.attempt_number = 1) => call.started = 0
    /\ (call.status # "running" /\ call.delay >= 30000) =>
          /\ call.status = "raised"
          /\ TransientFailure(call.exc)
          /\ call.started <= call.delay
          /\ call.started < 30000 + 1000 * (2 ^ (call.attempt_number - 1))

C3_Witness ==
    /\ call.status = "running"
    /\ call.attempt_number = 5
    /\ call.started > 30000

\* the 'not found' code of the family of a tagging call, None for the
\* compute and file-system calls
ClaimedNotFoundCode(api) ==
    CASE api = "rds.add_tags_to_resource" -> "DBInstanceNotFound"
      [] api \in {"elb.add_tags", "elbv2.add_tags"} -> "LoadBalancerNotFound"
      [] api = "elasticache.add_tags_to_resource" -> "CacheClusterNotFound"
      [] OTHER -> None

ResourceNotFoundLine(resource_arn) ==
    [text |-> "Resource not found", resource |-> resource_arn]

\* C4: in the step in which a remote call ends raising a provider error,
\* the operation goes on normally, printing "Resource not found" for the
\* identifier, exactly when the call is the tagging call of the database,
\* load-balancer or cache tagger and the code is the 'not found' code of
\* that family; in every other case (the compute and file-system taggers, a
\* foreign 'not found' code, any other code) nothing is printed and the
\* operation ends raising that very error.
C4_OnlyOwnNotFoundAbsorbed ==
    [][(pc = "call" /\ call'.status = "raised" /\ call'.exc.type = "ClientError") =>
          IF call'.api \in TaggingApis /\ call'.exc.code = ClaimedNotFoundCode(call'.api)
          THEN /\ pc' \in {"loop", "done"}
               /\ result'.status # "raised"
               /\ printed' = Append(printed, ResourceNotFoundLine(cur.resource_id))
          ELSE /\ pc' = "done"
               /\ result' = Raised(call'.exc)
               /\ printed' = printed
      ]_vars

C4_Witness ==
    /\ call.api = "elbv2.add_tags"
    /\ call.status = "raised"
    /\ call.exc = ClientError("LoadBalancerNotFound")
    /\ result = Returned
    /\ printed[Len(printed)] = ResourceNotFoundLine(cur.resource_id)

\* a key the provider reserves, or the display-name key
ReservedKey(key) == StartsWith(key, "aws:") \/ key = "Name"

\* the wire tags of every tagging request issued, in flight included
WireTagsSent ==
    {sent[i].args.Tags : i \in {j \in 1..Len(sent) : sent[j].api \in TaggingApis}}
    \cup (IF call.api \in TaggingApis THEN {call.args.Tags} ELSE {})

\* C5: no tagging request issued by any dispatcher carries a tag whose key
\* starts with 'aws:' or is 'Name'.
C5_NoReservedKeySent ==
    \A wire \in WireTagsSent : \A i \in 1..Len(wire) : ~ReservedKey(wire[i].Key)

C5_Witness ==
    /\ kind = "csv"
    /\ \E i \in 1..Len(cur.tags) : ReservedKey(cur.tags[i][1])
    /\ \E i \in 1..Len(cur.tags) : ~ReservedKey(cur.tags[i][1])
    /\ call.api \in TaggingApis
    /\ Len(call.args.Tags) = 1
    /\ call.status = "returned"

\* C6 as claimed: the wire tags of a tagging request are in bijection with
\* the items of the input tag set whose key neither starts with 'aws:' nor
\* is 'Name', each with the input's value, and reading them back gives the
\* input restricted to those keys.
C6_Claimed_WireBijection ==
    (call.api \in TaggingApis /\ cur.dispatched) =>
        LET T == cur.tags
            wire == call.args.Tags
            kept == {i \in 1..Len(T) : ~ReservedKey(T[i][1])}
        IN  /\ \A i \in kept :
                  /\ Cardinality({j \in 1..Len(wire) : wire[j].Key = T[i][1]}) = 1
                  /\ \A j \in 1..Len(wire) :
                        wire[j].Key = T[i][1] => wire[j].Value = T[i][2]
            /\ \A j \in 1..Len(wire) : \E i \in kept : wire[j].Key = T[i][1]
            /\ DOMAIN _aws_tags_to_dict(wire) = {T[i][1] : i \in kept}
            /\ \A i \in kept : _aws_tags_to_dict(wire)[T[i][1]] = T[i][2]

ClaimedProducts ==
    {"ec2", "elasticfilesystem", "rds", "elasticloadbalancing", "elasticache"}

\* the discriminator of a long-form identifier that has one: the segment at
\* index 2 (counting from 0) of an identifier of at least 5 segments that
\* begins with the marker 'arn:'; None otherwise
ClaimedDiscriminator(resource_id) ==
    LET parts == Split(resource_id, ":")
    IN  IF StartsWith(resource_id, "arn:") /\ Len(parts) >= 5 THEN parts[3] ELSE None

\* an identifier the dispatcher cannot route
BadIdentifier(resource_id) ==
    \/ resource_id = ""
    \/ /\ ~StartsWith(resource_id, "i-")
       /\ ClaimedDiscriminator(resource_id) \notin ClaimedProducts

\* C7: once SingleResourceTagger.tag has been called on the empty identifier
\* or on one with neither the 'i-' prefix nor a recognized discriminator, it
\* has returned without raising, it selected no tagger and issued no tagging
\* request, and it printed the 'not support' line for the identifier (no
\* line at all for the empty one).
C7_BadIdentifierIsNoOp ==
    (cur.dispatched /\ BadIdentifier(cur.resource_id)) =>
        /\ pc \in {"loop", "done"}
        /\ result.status # "raised"
        /\ cur.product = None
        /\ call.api \notin TaggingApis
        /\ kind # "multi" => \A i \in 1..Len(sent) : sent[i].api \notin TaggingApis
        /\ IF cur.resource_id = ""
           THEN \A i \in 1..Len(printed) : printed[i].resource # ""
           ELSE /\ printed # <<>>
                /\ printed[Len(printed)] =
                      [text |-> "Tagging is not support for this resource",
                       resource |-> cur.resource_id]

C7_Witness ==
    /\ kind = "single"
    /\ pc = "done"
    /\ cur.dispatched
    /\ cur.resource_id = "arn:aws:s3:::bucket"
    /\ result = Returned
    /\ sent = <<>>
    /\ Len(printed) = 1

ClaimedApis(product) ==
    CASE product = "ec2" -> {"ec2.create_tags"}
      [] product = "elasticfilesystem" -> {"efs.create_tags"}
      [] product = "rds" -> {"rds.add_tags_to_resource"}
      [] product = "elasticloadbalancing" -> {"elb.add_tags", "elbv2.add_tags"}
      [] product = "elasticache" -> {"elasticache.add_tags_to_resource"}
      [] OTHER -> {}

\* C8: once SingleResourceTagger.tag has been called on an identifier that
\* begins with 'arn:', the tagger it selected is the one registered for the
\* segment at index 2 when the identifier has at least 5 segments and that
\* segment is one of the five names, and none otherwise; unless in dry-run,
\* the request issued goes to an API of that tagger.
C8_DiscriminatorSelectsTagger ==
    (cur.dispatched /\ StartsWith(cur.resource_id, "arn:")) =>
        LET parts == Split(cur.resource_id, ":")
            expected == IF Len(parts) >= 5 /\ parts[3] \in ClaimedProducts
                        THEN parts[3] ELSE None
        IN  /\ cur.product = expected
            /\ (expected = None \/ dryrun) => call.api \notin TaggingApis
            /\ (expected # None /\ ~dryrun) => call.api \in ClaimedApis(expected)

C8_Witness ==
    /\ cur.dispatched
    /\ cur.resource_id = "arn:aws:elasticache:us-east-1:1:cluster:redis"
    /\ cur.product = "elasticache"
    /\ call.api = "elasticache.add_tags_to_resource"

\* C9: once LBTagger.tag has been called outside dry-run, exactly one
\* request has been issued for the identifier: to the elbv2 API with the
\* whole identifier when it contains ':loadbalancer/app/', otherwise to the
\* elb API with the extracted display name; never one to each.
C9_OneLoadBalancerApi ==
    (cur.dispatched /\ cur.product = "elasticloadbalancing" /\ ~dryrun) =>
        LET lb == {i \in 1..Len(sent) : sent[i].api \in {"elb.add_tags", "elbv2.add_tags"}}
            wire == call.args.Tags
        IN  /\ Cardinality(lb) = 1
            /\ \A i \in lb :
                  /\ sent[i] = [api |-> call.api, args |-> call.args]
                  /\ IF Contains(cur.resource_id, ":loadbalancer/app/")
                     THEN sent[i] = [api |-> "elbv2.add_tags",
                                     args |-> [ResourceArns |-> <<cur.resource_id>>,
                                               Tags |-> wire]]
                     ELSE sent[i] = [api |-> "elb.add_tags",
                                     args |-> [LoadBalancerNames |->
                                                  <<_arn_to_name(cur.resource_id)>>,
                                               Tags |-> wire]]

C9_Witness ==
    /\ pc = "done"
    /\ cur.resource_id =
          "arn:aws:elasticloadbalancing:us-east-1:1:loadbalancer/app/web/abc"
    /\ Len(sent) = 1
    /\ sent[1].api = "elbv2.add_tags"
    /\ sent[1].args.ResourceArns = <<cur.resource_id>>

\* the display names carried by the requests that carry one
NamesSent ==
    {sent[i].args.FileSystemId : i \in {j \in 1..Len(sent) : sent[j].api = "efs.create_tags"}}
    \cup {sent[i].args.LoadBalancerNames[1] :
             i \in {j \in 1..Len(sent) : sent[j].api = "elb.add_tags"}}

LastSegment(resource_arn) ==
    LET parts == Split(resource_arn, ":") IN parts[Len(parts)]

\* the part of the segment after its first '/'
AfterFirstSlash(segment) == SubSeq(segment, Find(segment, "/") + 1, Len(segment))

\* C10 as claimed: the display name is the last ':'-delimited segment,
\* except that a segment with exactly one '/' gives the part after it.
C10_Claimed_ExactlyOneSlash ==
    (cur.dispatched /\ cur.product \in {"elasticfilesystem", "elasticloadbalancing"}) =>
        \A name \in NamesSent :
            LET segment == LastSegment(cur.resource_id)
            IN  name = IF Count(segment, "/") = 1 THEN AfterFirstSlash(segment)
                       ELSE segment

\* C10 as amended: the display name is the last ':'-delimited segment,
\* except that a segment with at least one '/' gives the part after its
\* first '/'; a segment with no '/' is returned unchanged.
C10_NameAfterFirstSlash ==
    (cur.dispatched /\ cur.product \in {"elasticfilesystem", "elasticloadbalancing"}) =>
        \A name \in NamesSent :
            LET segment == LastSegment(cur.resource_id)
            IN  name = IF Count(segment, "/") >= 1 THEN AfterFirstSlash(segment)
                       ELSE segment

C10_Witness ==
    /\ cur.dispatched
    /\ cur.resource_id =
          "arn:aws:elasticloadbalancing:us-east-1:1:loadbalancer/net/nlb/abc"
    /\ NamesSent = {"net/nlb/abc"}

\* the dispatcher the item in hand was delegated to
Dispatcher == IF kind = "csv" THEN regional_tagger[cur.region] ELSE tagger

\* the create-tags requests issued, by their position in sent
CreateTagsSent == {i \in 1..Len(sent) : sent[i].api = "ec2.create_tags"}

\* the resource list claimed for instance X under the cache: X, then the
\* volumes of X's attachment list when it has one
ClaimedResources(cache, X) ==
    <<X>> \o (IF X \in DOMAIN cache THEN cache[X] ELSE <<>>)

\* C11: once EC2Tagger.tag has been called on X outside dry-run, the call it
\* made is one create-tags request whose resource list is X followed by the
\* volumes of X's cached attachment list (X alone without one) and which
\* carries one tag list, taken from the input tags, for all of them; every
\* create-tags request issued has that shape, there is one per identifier
\* and none names a volume first.
C11_OneCombinedCreateTags ==
    (cur.dispatched /\ cur.product = "ec2" /\ ~dryrun) =>
        LET cache == Dispatcher.taggers.ec2.volume_cache
        IN  /\ call.api = "ec2.create_tags"
            /\ DOMAIN call.args = {"Resources", "Tags"}
            /\ call.args.Resources = ClaimedResources(cache, cur.resource_id)
            /\ \A i \in 1..Len(call.args.Tags) :
                  \E j \in 1..Len(cur.tags) :
                     call.args.Tags[i] = [Key |-> cur.tags[j][1], Value |-> cur.tags[j][2]]
            /\ CreateTagsSent # {}
            /\ kind # "multi" => Cardinality(CreateTagsSent) = 1
            /\ \A i \in CreateTagsSent :
                  /\ sent[i].args.Resources =
                        ClaimedResources(cache, sent[i].args.Resources[1])
                  /\ ~StartsWith(sent[i].args.Resources[1], "vol-")
                  /\ sent[i].args.Tags = call.args.Tags
            /\ sent[Len(sent)] = [api |-> call.api, args |-> call.args]

C11_Witness ==
    /\ cur.dispatched
    /\ cur.resource_id = "i-1"
    /\ call.api = "ec2.create_tags"
    /\ call.args.Resources = <<"i-1", "vol-1", "vol-2">>
    /\ Len(call.args.Tags) = 1
    /\ call.status = "returned"

\* the remote calls that change tags
MutatingApis ==
    {"ec2.create_tags", "efs.create_tags", "rds.add_tags_to_resource",
     "elb.add_tags", "elbv2.add_tags", "elasticache.add_tags_to_resource"}

\* what the 'tagging' line names for an identifier the tagger `product`
\* handles: the instance and its volumes, the file-system id, or the
\* identifier itself
ClaimedResolved(product, resource_id) ==
    CASE product = "ec2" ->
            Join(ClaimedResources(Dispatcher.taggers.ec2.volume_cache, resource_id), ", ")
      [] product = "elasticfilesystem" ->
            LET segment == LastSegment(resource_id)
            IN  IF Count(segment, "/") >= 1 THEN AfterFirstSlash(segment) ELSE segment
      [] OTHER -> resource_id

\* C12: in dry-run no create-tags or add-tags request is ever issued, by any
\* dispatcher and whatever was tagged before; the identifier is still
\* resolved (a tagger is selected as outside dry-run and the names it would
\* tag are worked out) and, when verbose, the 'tagging' line for it is
\* printed; without verbose no such line is printed.
C12_DryRunNeverMutates ==
    dryrun =>
        /\ call.api \notin MutatingApis
        /\ \A i \in 1..Len(sent) : sent[i].api \notin MutatingApis
        /\ cur.dispatched =>
              /\ cur.product = (IF BadIdentifier(cur.resource_id) THEN None
                                ELSE IF StartsWith(cur.resource_id, "i-") THEN "ec2"
                                ELSE ClaimedDiscriminator(cur.resource_id))
              /\ pc \in {"loop", "done"}
              /\ result.status # "raised"
              /\ (cur.product # None /\ verbose) =>
                    /\ printed # <<>>
                    /\ printed[Len(printed)] =
                          [text |-> "tagging",
                           resource |-> ClaimedResolved(cur.product, cur.resource_id),
                           tags |-> cur.tags]
              /\ ~verbose => \A i \in 1..Len(printed) : printed[i].text # "tagging"

C12_Witness ==
    /\ dryrun
    /\ verbose
    /\ pc = "done"
    /\ cur.dispatched
    /\ cur.product = "ec2"
    /\ cur.tags # <<>>
    /\ sent = <<>>
    /\ printed = <<[text |-> "tagging", resource |-> "i-1, vol-1, vol-2", tags |-> cur.tags]>>

\* the cell of the row under the column `name` of the header
Cell(index, row, name) == row[index[name] + 1]

\* the effective region as the specification resolves it: the row's Region
\* value when the column is there and the cell is not empty, else the
\* region the tabular dispatcher was configured with, else None
ClaimedEffectiveRegion(index, row, fallback) ==
    IF "Region" \in DOMAIN index /\ Cell(index, row, "Region") # ""
    THEN Cell(index, row, "Region")
    ELSE IF fallback # None /\ fallback # "" THEN fallback
    ELSE None

\* C13 as claimed: the dispatcher a data row is delegated to is the one of
\* the effective region so resolved; a row with an empty Region cell gets
\* the configured fallback.
C13_Claimed_EmptyCellUsesFallback ==
    (kind = "csv" /\ cur.dispatched) =>
        /\ cur.region = ClaimedEffectiveRegion(tag_index, cur_row, environment.region)
        /\ Dispatcher.region = cur.region

\* the regions the clients of a dispatcher are bound to
BoundRegions(self) ==
    UNION {{self.taggers[p].clients[i].region_name :
               i \in 1..Len(self.taggers[p].clients)} : p \in DOMAIN self.taggers}

\* the row in hand carries a non-empty Region value
RowHasRegion ==
    "Region" \in DOMAIN tag_index /\ Cell(tag_index, cur_row, "Region") # ""

\* C14 as claimed: the explicit flag wins over the row: with a tabular
\* dispatcher constructed with a region and a row carrying a non-empty
\* Region value, the clients used for the row are bound to the region of
\* the flag.
C14_Claimed_FlagBeatsRow ==
    (kind = "csv" /\ cur.dispatched /\ environment.region # None /\ RowHasRegion) =>
        BoundRegions(Dispatcher) = {environment.region}

\* C14 as amended: the row wins over the explicit flag: the clients used
\* for a row carrying a non-empty Region value are bound to that value,
\* whatever region the tabular dispatcher was constructed with; for an input
\* without a Region column they are bound to the region of the flag when it
\* is given, else to the environment's default, else to none (the default
\* of the provider SDK).
C14_RowBeatsFlag ==
    (kind = "csv" /\ cur.dispatched) =>
        /\ RowHasRegion =>
              BoundRegions(Dispatcher) = {Cell(tag_index, cur_row, "Region")}
        /\ "Region" \notin DOMAIN tag_index =>
              BoundRegions(Dispatcher) =
                 {IF environment.region # None THEN environment.region
                  ELSE IF environment.environ # None THEN environment.environ
                  ELSE None}

C14_Witness ==
    /\ kind = "csv"
    /\ cur.dispatched
    /\ environment.region = "us-east-1"
    /\ RowHasRegion
    /\ BoundRegions(Dispatcher) = {"eu-west-1"}
    /\ call.api \in MutatingApis

\* the requests of a dispatcher's construction among those issued
ConstructionRequests(requests) ==
    {i \in 1..Len(requests) :
        requests[i].api \in {"ec2.describe_instances", "sts.assume_role"}}

\* C15: in a tabular run the number of dispatchers constructed is at every
\* point the number of regions in the cache, and a row is only ever
\* delegated to the cached dispatcher of its effective region; a cache entry
\* is never replaced or removed; a dispatcher is constructed only for a row
\* whose effective region has no entry yet, and is then entered under that
\* region; and a row whose effective region has an entry is delegated
\* at once, with no construction.  So the dispatchers constructed are as
\* many as the distinct effective regions of the rows delegated so far.
C15_OneDispatcherPerRegion ==
    /\ [](kind = "csv" =>
            /\ constructions = Cardinality(DOMAIN regional_tagger)
            /\ cur.dispatched => cur.region \in DOMAIN regional_tagger)
    /\ [][/\ \A r \in DOMAIN regional_tagger :
                /\ r \in DOMAIN regional_tagger'
                /\ regional_tagger'[r] = regional_tagger[r]
          /\ constructions' \in {constructions, constructions + 1}
          /\ constructions' = constructions + 1 =>
                /\ cur'.dispatched
                /\ cur'.region \notin DOMAIN regional_tagger
                /\ DOMAIN regional_tagger' = DOMAIN regional_tagger \cup {cur'.region}
          /\ constructions' = constructions => regional_tagger' = regional_tagger
          /\ (kind = "csv" /\ pc = "loop" /\ ~header_row /\ pc' # "done") =>
                IF cur'.region \in DOMAIN regional_tagger
                THEN /\ cur'.dispatched
                     /\ constructions' = constructions
                     /\ ConstructionRequests(sent') = {}
                ELSE /\ ~cur'.dispatched
                     /\ call'.api = "ec2.describe_instances"
         ]_vars

C15_Witness ==
    /\ kind = "csv"
    /\ constructions = 2
    /\ DOMAIN regional_tagger = {None, "eu-west-1"}
    /\ cur.dispatched
    /\ cur.region = "eu-west-1"
    /\ ConstructionRequests(sent) = {}
    /\ call.api \in MutatingApis

\* the items of a dict given as a sequence of pairs
Items(tags) == {tags[i] : i \in 1..Len(tags)}

\* C16: the tag set a data row is delegated with holds exactly the pairs
\* (column name, cell) of the columns other than 'Id' and 'Region' whose
\* cell in the row is not empty, each once: neither the identifier nor the
\* region is ever a tag, and an empty cell gives none.
C16_RowTagsAreOtherNonEmptyColumns ==
    (kind = "csv" /\ cur.dispatched) =>
        /\ Items(cur.tags) =
              {<<name, Cell(tag_index, cur_row, name)>> :
                  name \in {n \in DOMAIN tag_index \ {"Id", "Region"} :
                               Cell(tag_index, cur_row, n) # ""}}
        /\ Len(cur.tags) = Cardinality(Items(cur.tags))
        /\ \A i \in 1..Len(cur.tags) :
              /\ cur.tags[i][1] \notin {"Id", "Region"}
              /\ cur.tags[i][2] # ""
        /\ cur.resource_id = Cell(tag_index, cur_row, "Id")

C16_Witness ==
    /\ kind = "csv"
    /\ cur.dispatched
    /\ cur_row = <<"i-1", "eu-west-1", "eu-west-1">>
    /\ tag_index = [Id |-> 0, Region |-> 1, env |-> 2]
    /\ cur.tags = <<<<"env", "eu-west-1">>>>
    /\ call.api = "ec2.create_tags"

\* s is a prefix of t
IsPrefix(s, t) == Len(s) <= Len(t) /\ SubSeq(t, 1, Len(s)) = s

\* the exception is the 'not found' provider error of the family of the call
ClaimedAbsorbed(api, exception) ==
    exception.type = "ClientError" /\ exception.code = ClaimedNotFoundCode(api)

\* C17: MultipleResourceTagger.tag hands the identifiers of its list to its
\* one dispatcher in list order, one at a time (the next only when the call
\* for the one before has ended), each with the tags it was called with.
\* When the call for an identifier raises an error that is not absorbed, the
\* bulk call ends raising that error with the rest of the list untouched and
\* the requests already issued standing; an absorbed 'not found' sends it on
\* to the rest of the list; it returns only when the list is exhausted, and
\* nothing happens after it has ended.
C17_BulkInOrderNoRollback ==
    /\ [](kind = "multi" =>
            /\ cur.dispatched => cur.tags = op_tags
            /\ result.status = "raised" =>
                  /\ pc = "done"
                  /\ call.status = "raised"
                  /\ result.exc = call.exc
                  /\ ~ClaimedAbsorbed(call.api, call.exc)
            /\ (pc = "done" /\ result.status = "returned") => queue = <<>>)
    /\ [][kind = "multi" =>
            /\ pc # "done"
            /\ pc # "idle" =>
                  /\ op_tags' = op_tags
                  /\ tagger' = tagger
                  /\ IsPrefix(sent, sent')
                  /\ IsPrefix(printed, printed')
                  /\ queue' # queue =>
                        /\ pc = "loop"
                        /\ queue' = Tail(queue)
                        /\ cur'.resource_id = Head(queue)
                        /\ cur'.tags = op_tags
                        /\ cur'.dispatched
            /\ (pc = "call" /\ call'.status = "raised") =>
                  /\ queue' = queue
                  /\ sent' = sent
                  /\ IF ClaimedAbsorbed(call'.api, call'.exc)
                     THEN /\ pc' = "loop"
                          /\ result'.status = "running"
                     ELSE /\ pc' = "done"
                          /\ result' = Raised(call'.exc)
         ]_vars

C17_Witness ==
    /\ kind = "multi"
    /\ pc = "done"
    /\ result = Raised(ClientError("AccessDenied"))
    /\ Len(sent) = 2
    /\ sent[1].api = "rds.add_tags_to_resource"
    /\ \E i \in 1..Len(printed) : printed[i].text = "Resource not found"
    /\ sent[2].api = "ec2.create_tags"
    /\ cur.resource_id = "i-1"

\* the instances of an enumeration, and the volume ids of the EBS devices of
\* an instance among them, in the order of the enumeration
ClaimedInstances(response) ==
    UNION {{response.Reservations[r].Instances[i] :
               i \in 1..Len(response.Reservations[r].Instances)} :
           r \in 1..Len(response.Reservations)}

ClaimedAttachments(instance) ==
    IF "BlockDeviceMappings" \notin DOMAIN instance THEN <<>>
    ELSE LET devices == instance.BlockDeviceMappings
             ebs == {i \in 1..Len(devices) : "Ebs" \in DOMAIN devices[i]}
             F[i \in 0..Len(devices)] ==
                 IF i = 0 THEN <<>>
                 ELSE IF i \in ebs THEN Append(F[i - 1], devices[i].Ebs.VolumeId)
                 ELSE F[i - 1]
         IN  F[Len(devices)]

\* the cache claimed for an enumeration
ClaimedCache(cache, response) ==
    /\ DOMAIN cache = {instance.InstanceId : instance \in ClaimedInstances(response)}
    /\ \A instance \in ClaimedInstances(response) :
          cache[instance.InstanceId] = ClaimedAttachments(instance)

\* the dispatchers constructed so far
Dispatchers ==
    IF kind = "csv" THEN {regional_tagger[r] : r \in DOMAIN regional_tagger}
    ELSE {tagger}

\* the enumeration requests among those issued, by position
DescribeSent(requests) ==
    {i \in 1..Len(requests) : requests[i].api = "ec2.describe_instances"}

\* C18: the volume cache of every compute tagger is what the one
\* enumeration of its construction gave, and stays so: no step changes the
\* cache of a constructed dispatcher, whatever the outcome of a tag call;
\* the only enumeration request is the one of a construction (one per
\* dispatcher constructed, issued before the row is delegated), and none is
\* issued by or after a tag call.
C18_VolumeCacheBuiltOnce ==
    /\ [](/\ \A d \in Dispatchers : ClaimedCache(d.taggers.ec2.volume_cache, world)
          /\ kind # "csv" => DescribeSent(sent) = {}
          /\ (call.api = "ec2.describe_instances" /\ call.status = "running") =>
                ~cur.dispatched
          /\ Cardinality(DescribeSent(sent)) <= 1
          /\ \A i \in DescribeSent(sent) :
                \A j \in 1..Len(sent) : sent[j].api \in MutatingApis => i < j)
    /\ [][/\ tagger' = tagger
          /\ \A r \in DOMAIN regional_tagger :
                /\ r \in DOMAIN regional_tagger'
                /\ regional_tagger'[r].taggers.ec2.volume_cache =
                      regional_tagger[r].taggers.ec2.volume_cache
          /\ (pc = "call" /\ call.api \in MutatingApis) =>
                /\ DescribeSent(sent') = DescribeSent(sent)
                /\ call'.api # "ec2.describe_instances"
          /\ constructions' # constructions =>
                Cardinality(DescribeSent(sent')) = 1
         ]_vars

C18_Witness ==
    /\ kind = "csv"
    /\ constructions = 1
    /\ cur.dispatched
    /\ call.api = "ec2.create_tags"
    /\ call.attempt_number > 1
    /\ call.status = "raised"
    /\ Dispatcher.taggers.ec2.volume_cache = [x \in {"i-1", "i-2"} |->
                      IF x = "i-1" THEN <<"vol-1", "vol-2">> ELSE <<>>]
    /\ Cardinality(DescribeSent(sent)) = 1

\* the mapping a header row defines: each column name to the position of
\* its column, counted from 0
ClaimedMapping(header) ==
    [name \in {header[i] : i \in 1..Len(header)} |->
        (CHOOSE i \in 1..Len(header) : header[i] = name) - 1]

\* the row has no cell in the identifier column
MissingId(index, row) == "Id" \in DOMAIN index /\ Len(row) <= index["Id"]

\* the tagging requests among those issued for the row in hand
MutatingSent == {i \in 1..Len(sent) : sent[i].api \in MutatingApis}

\* C19: in a tabular run the first row read only defines the mapping of
\* column names to positions: nothing is delegated or requested for it, and
\* the mapping is never changed afterwards.  Every later row is taken when
\* read, and only between calls, against that mapping: the item in hand is
\* always the one of the row read last, and at most one tagging request is
\* issued for it.  A row without a cell in the identifier column ends the
\* run at once with an IndexError, nothing being requested or delegated for
\* it, and no step follows the end of the run.
C19_HeaderThenRows ==
    /\ [](kind = "csv" =>
            /\ header_row =>
                  /\ ~cur.dispatched
                  /\ sent = <<>>
                  /\ call = NoCall
                  /\ constructions = 0
            /\ (~header_row /\ (cur.dispatched \/ pc = "call")) =>
                  /\ cur.resource_id = Cell(tag_index, cur_row, "Id")
                  /\ Cardinality(MutatingSent) <= 1
            /\ result.exc.type \in {"IndexError", "KeyError"} =>
                  /\ pc = "done"
                  /\ ~cur.dispatched
                  /\ sent = <<>>
                  /\ call = NoCall)
    /\ [][kind = "csv" =>
            /\ pc # "done"
            /\ (pc = "loop" /\ header_row /\ pc' # "done") =>
                  /\ ~header_row'
                  /\ tag_index' = ClaimedMapping(cur_row')
                  /\ UNCHANGED <<pc, cur, call, sent, printed, result, regional_tagger>>
            /\ ~header_row => (~header_row' /\ tag_index' = tag_index)
            /\ pc = "call" => cur_row' = cur_row
            /\ (pc = "loop" /\ ~header_row /\ MissingId(tag_index, cur_row')) =>
                  /\ pc' = "done"
                  /\ result' = Raised(IndexError)
                  /\ ~cur'.dispatched
                  /\ sent' = <<>>
            /\ (pc = "loop" /\ ~header_row /\ pc' = "call") =>
                  cur'.resource_id = Cell(tag_index, cur_row', "Id")
         ]_vars

C19_Witness ==
    /\ kind = "csv"
    /\ pc = "done"
    /\ constructions = 1
    /\ tag_index = [env |-> 0, Id |-> 1]
    /\ cur_row = <<"i-1">>
    /\ result = Raised(IndexError)
    /\ sent = <<>>

\* the role-assumption requests among those issued for the row in hand
AssumeRoleSent == {i \in 1..Len(sent) : sent[i].api = "sts.assume_role"}

\* C20 as claimed: every dispatcher constructed holds the five per-type
\* taggers, one of each, with all their clients bound to one region; the
\* construction of a dispatcher with a role asks for assumed-role
\* credentials once; and every client or credential request precedes the
\* tag call.
C20_Claimed_OneRoleAssumption ==
    /\ \A d \in Dispatchers \ {NoTagger} :
          /\ DOMAIN d.taggers = ClaimedProducts
          /\ Cardinality({d.taggers[p].class : p \in DOMAIN d.taggers}) = 5
          /\ Cardinality(BoundRegions(d)) = 1
    /\ \A i \in ConstructionRequests(sent) :
          \A j \in 1..Len(sent) : sent[j].api \in MutatingApis => i < j
    /\ (kind = "csv" /\ cur.dispatched /\ environment.role # None
           /\ DescribeSent(sent) # {}) =>
          Cardinality(AssumeRoleSent) = 1
====
